---------------------------- MODULE Spec2Model ----------------------------
(***************************************************************************)
(* Autonomous driver loop of codex-rs/cli/src/main.rs                      *)
(* (run_autonomous_mode, collect_codex_response_with_tools,                *)
(* generate_user_prompt, handle_supervisor_tool_calls and their helpers).  *)
(*                                                                         *)
(* Text is a sequence of atoms (strings).  Driver answers to approval      *)
(* prompts are spelled one character per atom, so that trim, to_lowercase, *)
(* starts_with, contains and find work on characters as in the source.     *)
(* Other texts (instructions, agent messages, summaries) use one atom per  *)
(* word; count_tokens adds up a weight per atom.                           *)
(***************************************************************************)
EXTENDS Integers, Sequences, FiniteSets, TLC

(***************************************************************************)
(* Bounds of the model                                                     *)
(***************************************************************************)
\* turns (loop iterations) started over all process runs
MaxTurns == 2
\* agent events other than the terminating one, plus Supervisor tool calls made
\* by the Driver, over all turns
MaxInputs == 2
\* process runs: the first one is fresh, the others resume its directory
MaxSessions == 2

(***************************************************************************)
(* Program constants                                                       *)
(***************************************************************************)
MAX_TOKENS == 200000
TOKEN_BUFFER == 500
\* width of the iteration number in a checkpoint file name ({:03})
IterWidth == 3
\* token weight of the one long text of the model: a first prompt that holds it
\* once is exactly at the threshold
BigWeight == MAX_TOKENS - TOKEN_BUFFER - 11

None == "none"

\* an optional value: a file that may not exist, a local that may not be set
Absent == <<>>
Some(x) == <<x>>
Get(opt) == opt[1]

(***************************************************************************)
(* Strings                                                                 *)
(***************************************************************************)
IsWhitespace(c) == c \in {" ", "\n", "\t", "\n\n"}

\* char::to_lowercase on the letters the model uses
LowerChar(c) ==
    CASE c = "A" -> "a" [] c = "P" -> "p" [] c = "R" -> "r" [] c = "O" -> "o"
      [] c = "V" -> "v" [] c = "E" -> "e" [] c = "D" -> "d" [] c = "N" -> "n"
      [] c = "Y" -> "y" [] c = "I" -> "i" [] c = "K" -> "k"
      [] OTHER -> c

\* str::to_lowercase
ToLower(s) == [i \in 1..Len(s) |-> LowerChar(s[i])]

RECURSIVE TrimStart(_)
\* str::trim_start
TrimStart(s) ==
    IF s # <<>> /\ IsWhitespace(Head(s)) THEN TrimStart(Tail(s)) ELSE s

RECURSIVE TrimEnd(_)
\* str::trim_end
TrimEnd(s) ==
    IF s # <<>> /\ IsWhitespace(s[Len(s)])
    THEN TrimEnd(SubSeq(s, 1, Len(s) - 1))
    ELSE s

\* str::trim
Trim(s) == TrimEnd(TrimStart(s))

\* str::starts_with
StartsWith(s, p) == Len(s) >= Len(p) /\ SubSeq(s, 1, Len(p)) = p

\* the positions at which pattern p occurs in s
Occurrences(s, p) ==
    {i \in 1..(Len(s) - Len(p) + 1) : SubSeq(s, i, i + Len(p) - 1) = p}

\* str::contains
Contains(s, p) == Occurrences(s, p) # {}

\* str::find: the first position of p in s (1-based), 0 for None
Find(s, p) ==
    IF Occurrences(s, p) = {} THEN 0
    ELSE CHOOSE i \in Occurrences(s, p) : \A j \in Occurrences(s, p) : i <= j

\* s[from..] of the source, with from the 0-based offset pos + n
DropFirst(s, n) == SubSeq(s, n + 1, Len(s))

RECURSIVE Replace(_, _, _)
\* str::replace: every occurrence of the placeholder atom ph, left to right
Replace(s, ph, v) ==
    IF s = <<>> THEN <<>>
    ELSE IF Head(s) = ph THEN v \o Replace(Tail(s), ph, v)
    ELSE <<Head(s)>> \o Replace(Tail(s), ph, v)

W_approve == <<"a", "p", "p", "r", "o", "v", "e">>
W_APPROVE == <<"A", "P", "P", "R", "O", "V", "E">>
W_deny == <<"d", "e", "n", "y">>
W_DENY == <<"D", "E", "N", "Y">>
W_dash == <<" ", "-", " ">>

(***************************************************************************)
(* parse_approval_response                                                 *)
(***************************************************************************)
\* the reasoning that follows the verdict word (upper and lower spelling)
ReasoningAfter(response, upper, lower) ==
    IF Find(response, W_dash) # 0
    THEN Trim(DropFirst(response, Find(response, W_dash) - 1 + 3))
    ELSE IF Find(response, upper) # 0
    THEN Trim(DropFirst(response, Find(response, upper) - 1 + Len(upper)))
    ELSE IF Find(response, lower) # 0
    THEN Trim(DropFirst(response, Find(response, lower) - 1 + Len(lower)))
    ELSE <<"No reasoning provided">>

\* a plausible slip: the verdict word looked for anywhere in the answer
parse_approval_response_contains(raw) ==
    LET response == Trim(raw) IN
    IF Contains(ToLower(response), W_approve)
    THEN [approved |-> TRUE, reasoning |-> ReasoningAfter(response, W_APPROVE, W_approve)]
    ELSE [approved |-> FALSE, reasoning |-> ReasoningAfter(response, W_DENY, W_deny)]

\* a plausible slip: an answer that does not start with DENY is an approval
parse_approval_response_fail_open(raw) ==
    LET response == Trim(raw) IN
    IF StartsWith(ToLower(response), W_deny)
    THEN [approved |-> FALSE,
          reasoning |-> ReasoningAfter(response, W_DENY, W_deny)]
    ELSE [approved |-> TRUE,
          reasoning |-> ReasoningAfter(response, W_APPROVE, W_approve)]

\* (approved, reasoning) of an answer of the Bugcrowd approval gate
parse_approval_response(raw) ==
    LET response == Trim(raw) IN
    IF StartsWith(ToLower(response), W_approve)
    THEN [approved |-> TRUE,
          reasoning |-> ReasoningAfter(response, W_APPROVE, W_approve)]
    ELSE IF StartsWith(ToLower(response), W_deny)
    THEN [approved |-> FALSE,
          reasoning |-> ReasoningAfter(response, W_DENY, W_deny)]
    ELSE [approved |-> FALSE,
          reasoning |-> <<"Unclear response format - auto-denied for safety: ">>
                          \o response]

\* the general approval gate's reading of the Driver answer
\* a plausible slip: the general gate asks for a leading verdict word
GeneralGateApprovesLeading(response) == StartsWith(ToLower(Trim(response)), W_approve)

\* response.to_lowercase().contains("approve")
GeneralGateApproves(response) == Contains(ToLower(response), W_approve)

(***************************************************************************)
(* count_tokens                                                            *)
(***************************************************************************)
Weight(atom) == IF atom = "BIG" THEN BigWeight ELSE 1

RECURSIVE count_tokens(_)
count_tokens(text) ==
    IF text = <<>> THEN 0 ELSE Weight(Head(text)) + count_tokens(Tail(text))

Threshold == MAX_TOKENS - TOKEN_BUFFER

\* a plausible slip: a context of exactly the threshold is summarized too
NeedsSummarizationAtThreshold(context_tokens) == context_tokens >= Threshold

\* if context_tokens > (MAX_TOKENS - TOKEN_BUFFER)
NeedsSummarization(context_tokens) == context_tokens > Threshold

(***************************************************************************)
(* Templates and their variables                                           *)
(***************************************************************************)
initial_prompt_template == <<"INITIAL ", "{config_yaml}", "{context}">>
continuation_prompt_template == <<"CONTINUE ", "{config_yaml}", "{context}">>
summarization_prompt_template == <<"SUMMARIZE ", "{context}">>
config_content == <<"task">>
system_prompt == <<"sys">>

inject_template_variables(template, config_yaml, context_text) ==
    Replace(Replace(template, "{config_yaml}", config_yaml), "{context}", context_text)

\* the prompt of the general approval gate for an exec approval request
inject_approval_variables_with_context(template, command, cwd, reason, config) ==
    Replace(Replace(Replace(Replace(template, "{command}", command),
                            "{cwd}", cwd),
                    "{reason}", reason),
            "{task_context}", config)

\* the prompt of the general approval gate for a patch approval request
inject_patch_approval_variables_with_context(template, files, changes, reason, config) ==
    Replace(Replace(Replace(Replace(Replace(template, "{command}", files),
                                    "{cwd}", <<".">>),
                            "{reason}", reason),
                    "{task_context}", config),
            "{changes}", changes)

(***************************************************************************)
(* The conversation log and its rendering                                  *)
(***************************************************************************)
SystemRecord(c) == [role |-> "system", content |-> c]
UserRecord(c) == [role |-> "user", content |-> c]
UserToolCallsRecord(c, calls) == [role |-> "user", content |-> c, tool_calls |-> calls]
ReasoningRecord(r) == [role |-> "assistant", content |-> <<>>, reasoning |-> r]
AssistantToolCallsRecord(calls) ==
    [role |-> "assistant", content |-> <<>>, tool_calls |-> calls]
AssistantRecord(c) == [role |-> "assistant", content |-> c]
ToolRecord(id, c) == [role |-> "tool", tool_call_id |-> id, content |-> c]

HasField(msg, f) == f \in DOMAIN msg

RECURSIVE Flatten(_)
\* the concatenation of a sequence of texts
Flatten(texts) ==
    IF texts = <<>> THEN <<>> ELSE Head(texts) \o Flatten(Tail(texts))

\* serde_json::to_string_pretty of one tool call
ToolCallJson(tc) == <<"{", tc.id, tc.type, tc.name>> \o tc.arguments \o <<"}">>

\* the tool calls that are not system events
FilteredToolCalls(calls) == SelectSeq(calls, LAMBDA tc : tc.type # "system")

\* one record of the log as the lines of the readable context
RenderRecord(msg) ==
    CASE msg.role = "system" -> <<"SYSTEM: ">> \o msg.content \o <<"\n\n">>
      [] msg.role = "user" -> <<"USER: ">> \o msg.content \o <<"\n\n">>
      [] msg.role = "assistant" ->
            IF HasField(msg, "reasoning")
            THEN <<"ASSISTANT_REASONING: ">> \o msg.reasoning \o <<"\n\n">>
            ELSE IF HasField(msg, "tool_calls")
            THEN IF FilteredToolCalls(msg.tool_calls) # <<>>
                 THEN <<"ASSISTANT_TOOL_CALLS: ">>
                        \o Flatten([i \in 1..Len(FilteredToolCalls(msg.tool_calls)) |->
                                      ToolCallJson(FilteredToolCalls(msg.tool_calls)[i])])
                        \o <<"\n\n">>
                 ELSE <<>>
            ELSE <<"ASSISTANT: ">> \o msg.content \o <<"\n\n">>
      [] msg.role = "tool" -> <<"TOOL_RESPONSE: ">> \o msg.content \o <<"\n\n">>
      [] OTHER -> <<>>

\* the readable context rebuilt from the whole log
readable_context(log) == Flatten([i \in 1..Len(log) |-> RenderRecord(log[i])])

(***************************************************************************)
(* Checkpoint files                                                        *)
(***************************************************************************)
RECURSIVE Digits(_)
\* the decimal digits of n
Digits(n) == IF n < 10 THEN <<n>> ELSE Digits(n \div 10) \o <<n % 10>>

RECURSIVE ZeroPad(_, _)
ZeroPad(ds, width) == IF Len(ds) >= width THEN ds ELSE ZeroPad(<<0>> \o ds, width)

\* the digits of the file name iteration_{:03}.json
IterationFileName(n) == ZeroPad(Digits(n), IterWidth)

RECURSIVE DigitsValue(_)
DigitsValue(ds) ==
    IF ds = <<>> THEN 0 ELSE 10 * DigitsValue(SubSeq(ds, 1, Len(ds) - 1)) + ds[Len(ds)]

\* filename[10..13].parse::<u32>() on such a file name
ParseIterationNumber(name) == DigitsValue(SubSeq(name, 1, IterWidth))

\* the highest iteration number found among the file names of a directory
MaxIterationIn(names) ==
    IF names = {} THEN 0
    ELSE CHOOSE m \in {ParseIterationNumber(f) : f \in names} :
            \A f \in names : ParseIterationNumber(f) <= m

\* max_iteration of a resume directory in which iteration_0 .. iteration_n
\* were written
ResumeMaxIteration(n) == MaxIterationIn({IterationFileName(k) : k \in 0..n})

EmptyDir == [iter |-> <<>>, latest |-> Absent, info |-> Absent, heartbeat |-> Absent]

Heartbeat(n, status) == [iteration |-> n, status |-> status]

\* the writes of one save_checkpoint call: the directory and the file
FileKinds == {"iteration", "latest", "info", "heartbeat", "global"}
CheckpointWrites == {"session", "backup"} \X FileKinds

\* the kinds of file whose write fails in directory d
FailedIn(failed, d) == {w[2] : w \in {x \in failed : x[1] = d}}

\* a plausible slip: the first failed write ends save_checkpoint for the directory
WriteCheckpointFilesAbortOnFailure(dir, log, n, failed) ==
    [iter |-> IF "iteration" \in failed THEN dir.iter
              ELSE (IterationFileName(n) :> log) @@ dir.iter,
     latest |-> IF {"iteration", "latest"} \cap failed # {} THEN dir.latest
                ELSE Some(log),
     info |-> IF {"iteration", "latest", "info"} \cap failed # {} THEN dir.info
              ELSE Some([current_iteration |-> n]),
     heartbeat |-> IF {"iteration", "latest", "info", "heartbeat"} \cap failed # {}
                   THEN dir.heartbeat
                   ELSE Some(Heartbeat(n, "running"))]

\* the files save_checkpoint writes into one directory: a failed write is
\* reported and leaves its file as it was, the other files are written
WriteCheckpointFiles(dir, log, n, failed) ==
    [iter |-> IF "iteration" \in failed THEN dir.iter
              ELSE (IterationFileName(n) :> log) @@ dir.iter,
     latest |-> IF "latest" \in failed THEN dir.latest ELSE Some(log),
     info |-> IF "info" \in failed THEN dir.info
              ELSE Some([current_iteration |-> n]),
     heartbeat |-> IF "heartbeat" \in failed THEN dir.heartbeat
                   ELSE Some(Heartbeat(n, "running"))]

\* the two global heartbeat files after the writes of hb_main and hb_backup
WriteGlobalHeartbeats(gh, hb_main, hb_backup, failed) ==
    [main |-> IF <<"session", "global">> \in failed THEN gh.main ELSE Some(hb_main),
     backup |-> IF <<"backup", "global">> \in failed THEN gh.backup ELSE Some(hb_backup)]

\* the final status of the session
FinalStatusAlwaysCompleted(result) == "completed"

FinalStatus(result) == IF result = "ok" THEN "completed" ELSE "error"

(***************************************************************************)
(* Supervisor tools                                                        *)
(***************************************************************************)
ToolNames == {"write_note", "read_notes", "slack_webhook", "finished", "delete_notes"}

\* what the Driver and the environment decide about one tool call:
\* same_second: the clock second is that of the previous note of the directory
\* fails: the file write or the webhook transport fails
ToolCallVariants ==
    {[name |-> "write_note", same_second |-> FALSE, fails |-> FALSE],
     [name |-> "write_note", same_second |-> TRUE, fails |-> FALSE],
     [name |-> "write_note", same_second |-> FALSE, fails |-> TRUE],
     [name |-> "read_notes", same_second |-> FALSE, fails |-> FALSE],
     [name |-> "slack_webhook", same_second |-> FALSE, fails |-> FALSE],
     [name |-> "slack_webhook", same_second |-> FALSE, fails |-> TRUE],
     [name |-> "finished", same_second |-> FALSE, fails |-> FALSE],
     [name |-> "delete_notes", same_second |-> FALSE, fails |-> FALSE]}

\* the tool call object the Driver Client builds from a FunctionCall item
SupervisorCall(v, k) ==
    [id |-> "call_" \o ToString(k), name |-> v.name, arguments |-> <<"arg">>,
     same_second |-> v.same_second, fails |-> v.fails]

\* the note files of a directory after write_note: a file name holds the clock
\* second, so a note of the same second replaces the previous file
NotesAfterWrite(files, call) ==
    IF call.fails THEN files
    ELSE IF call.same_second /\ files # <<>>
    THEN [files EXCEPT ![Len(files)] = <<"[ts] ">> \o call.arguments \o <<"\n">>]
    ELSE Append(files, <<"[ts] ">> \o call.arguments \o <<"\n">>)

NoteFileName(files, call) ==
    IF call.same_second /\ files # <<>>
    THEN "note_" \o ToString(Len(files))
    ELSE "note_" \o ToString(Len(files) + 1)

\* the content of one tool result
ToolResultContent(files, call) ==
    CASE call.name = "write_note" ->
            IF call.fails THEN <<"Error writing note: ", "io">>
            ELSE <<"Note written successfully to ", NoteFileName(files, call)>>
      [] call.name = "read_notes" ->
            IF files = <<>> THEN <<"No notes yet.">> ELSE Flatten(files)
      [] call.name = "slack_webhook" ->
            IF call.fails THEN <<"Error posting to Slack webhook: ", "io">>
            ELSE <<"Slack webhook posted: ", "out">>
      [] call.name = "finished" ->
            <<"Autonomous session finished: ">> \o call.arguments
      [] OTHER -> <<"Unknown tool: ", call.name>>

ToolResult(files, call) ==
    [tool_call_id |-> call.id, tool_name |-> call.name,
     content |-> ToolResultContent(files, call)]

RECURSIVE handle_supervisor_tool_calls(_, _)
\* the tool results, the note files afterwards, and the finished flag
handle_supervisor_tool_calls(tool_calls, files) ==
    IF tool_calls = <<>>
    THEN [tool_results |-> <<>>, files |-> files, session_finished |-> FALSE]
    ELSE LET call == Head(tool_calls)
             after == IF call.name = "write_note" THEN NotesAfterWrite(files, call)
                      ELSE files
             rest == handle_supervisor_tool_calls(Tail(tool_calls), after)
         IN [tool_results |-> <<ToolResult(files, call)>> \o rest.tool_results,
             files |-> rest.files,
             session_finished |-> (call.name = "finished") \/ rest.session_finished]

(***************************************************************************)
(* The Driver Client: generate_user_prompt                                 *)
(***************************************************************************)
InstructionTexts == {<<>>, <<" ">>, <<"go">>, <<"BIG">>}
SummaryTexts == {<<>>, <<"SUMMARY OK">>, <<"BIG">>}
\* " Approve - ok", "DENY - no", "not approved", "ok"
ApprovalAnswers ==
    {<<" ", "A">> \o Tail(W_approve) \o W_dash \o <<"o", "k">>,
     W_DENY \o W_dash \o <<"n", "o">>,
     <<"n", "o", "t", " ">> \o W_approve \o <<"d">>,
     <<"o", "k">>}

\* the tool calls considered in the Driver calls whose tool results are dropped
\* (follow-up instruction, summary, approval gates)
SideCallVariants == {v \in ToolCallVariants : v.name \in {"write_note", "finished"}
                                               /\ ~v.same_second /\ ~v.fails}

\* the tool call lists a Driver answer may carry when k inputs were used before
CallSeqs(variants, k) ==
    UNION {{[i \in 1..n |-> SupervisorCall(vs[i], k + i)] :
              vs \in [1..n -> variants]} : n \in 1..(MaxInputs - k)}

\* what the Driver model and its transport do in one call:
\*   err          the response stream fails
\*   text         a final text and no tool call
\*   tools        tool calls, then the follow-up text
\*   tools_err    tool calls, then the follow-up stream fails
\*   tools_mkdir  tool calls, and the notes directory cannot be created
DriverOutcomes(texts, variants, k) ==
    {[kind |-> "err", text |-> <<>>, calls |-> <<>>]}
    \cup {[kind |-> "text", text |-> t, calls |-> <<>>] : t \in texts}
    \cup {[kind |-> "tools", text |-> t, calls |-> cs] :
            t \in texts, cs \in CallSeqs(variants, k)}
    \cup {[kind |-> kd, text |-> <<>>, calls |-> cs] :
            kd \in {"tools_err", "tools_mkdir"}, cs \in CallSeqs(variants, k)}

\* response_text: the text of the Driver's first answer. Beside tool calls it
\* is what the Driver said when it called them
ResponseText(o) == IF o.calls = <<>> THEN o.text ELSE <<"calling tools">>

\* the ids of the calls handle_supervisor_tool_calls ran for a Driver answer:
\* the known tools, once the notes directory exists
SupervisorTools == {"write_note", "read_notes", "slack_webhook", "finished"}
ExecutedCalls(o) ==
    IF o.kind \in {"tools", "tools_err"}
    THEN {o.calls[i].id : i \in {j \in 1..Len(o.calls) : o.calls[j].name \in SupervisorTools}}
    ELSE {}

Failed(files) ==
    [ok |-> FALSE, text |-> <<>>, tool_results |-> <<>>, files |-> files,
     finished |-> FALSE]

\* the result of the call, the note files afterwards and whether `finished` ran
generate_user_prompt(o, files) ==
    LET h == handle_supervisor_tool_calls(o.calls, files) IN
    CASE o.kind = "err" -> Failed(files)
      [] o.kind = "text" ->
            IF o.text = <<>> THEN Failed(files)
            ELSE [ok |-> TRUE, text |-> Trim(o.text), tool_results |-> <<>>,
                  files |-> files, finished |-> FALSE]
      [] o.kind = "tools" ->
            [ok |-> TRUE, text |-> Trim(o.text), tool_results |-> h.tool_results,
             files |-> h.files, finished |-> h.session_finished]
      [] o.kind = "tools_err" ->
            [Failed(h.files) EXCEPT !.finished = h.session_finished]
      [] OTHER -> Failed(files)

(***************************************************************************)
(* State                                                                   *)
(***************************************************************************)
VARIABLES
    pc,                     \* where run_autonomous_mode stands
    iteration, context, conversation_log, session_finished, loop_result,
    final_context, context_was_summarized, driver_prompt_tokens,
    follow_up_driver_prompt, final_user_prompt,
    \* collect_codex_response_with_tools
    assistant_content, reasoning_content, tool_calls, tool_responses,
    denied_tool_calls,
    \* the Agent: calls begun and not ended, operations received this turn
    open_calls, agent_ops,
    \* files
    session_dir, backup_dir, global_heartbeat, context_log_txt, notes,
    \* the writes that failed: in the latest checkpoint, and whether any in this run
    faults,
    \* counters of the bounds
    runs, turns, inputs_used,
    \* history: what happened, for the properties
    hist,
    \* whether the --duration minutes have passed since start_time
    duration_elapsed,
    \* the function applied last, with its arguments and its result
    call

controller == <<iteration, context, conversation_log, session_finished, loop_result,
                final_context, context_was_summarized, driver_prompt_tokens,
                follow_up_driver_prompt, final_user_prompt>>
demux == <<assistant_content, reasoning_content, tool_calls, tool_responses,
           denied_tool_calls, open_calls, agent_ops>>
disk == <<session_dir, backup_dir, global_heartbeat, context_log_txt, faults>>
program == <<pc, controller, demux, disk, notes, runs, turns, inputs_used, hist,
             duration_elapsed>>
outside == <<duration_elapsed, call>>
vars == <<program, call>>

NoCall == [fn |-> "none"]

NoHist ==
    [finished_iter |-> 0,   \* the iteration in which `finished` ran for the loop
     summary |-> Absent,     \* the summary of this iteration
     turn_start |-> 0,      \* the length of the log when this iteration began
     max_found |-> 0,       \* the highest iteration file found on resume
     first_turn |-> 0,      \* the number of the first turn of this run
     gates |-> <<>>,        \* the approval gates passed in this turn
     cause |-> "none",      \* what ended the loop with an error
     context_tokens |-> 0,  \* count_tokens(context) at the top of this iteration
     driver_calls |-> <<>>, \* the tool calls of the Driver's answer in this iteration
     driver_text |-> <<>>,  \* the text of that answer
     summarizer_ran |-> FALSE,  \* whether summarize_context was called in it
     ended_by |-> "none",   \* the event that ended the collection of this turn
     foreign |-> <<>>,      \* the events of another submission seen in this turn
     executed |-> {}]       \* the ids of the Supervisor tool calls executed in it

InitProgram ==
    /\ pc = "start"
    /\ iteration = 0
    /\ context = <<>>
    /\ conversation_log = <<>>
    /\ session_finished = FALSE
    /\ loop_result = None
    /\ final_context = <<>>
    /\ context_was_summarized = FALSE
    /\ driver_prompt_tokens = 0
    /\ follow_up_driver_prompt = Absent
    /\ final_user_prompt = <<>>
    /\ assistant_content = <<>>
    /\ reasoning_content = <<>>
    /\ tool_calls = <<>>
    /\ tool_responses = <<>>
    /\ denied_tool_calls = {}
    /\ open_calls = {}
    /\ agent_ops = <<>>
    /\ session_dir = EmptyDir
    /\ backup_dir = EmptyDir
    /\ global_heartbeat = [main |-> Absent, backup |-> Absent]
    /\ context_log_txt = Absent
    /\ faults = [now |-> {}, ever |-> FALSE]
    /\ notes = [session |-> <<>>, logs |-> <<>>]
    /\ runs = 0
    /\ turns = 0
    /\ inputs_used = 0
    /\ hist = NoHist
    /\ duration_elapsed = FALSE

Init == InitProgram /\ call = NoCall

(***************************************************************************)
(* run_autonomous_mode: start                                              *)
(***************************************************************************)
\* save_checkpoint: the numbered file, latest.json, session_info.json and
\* heartbeat.json in both directories, and the two global heartbeat files
\* the sets of writes that may fail in one checkpoint when k inputs were used
FaultChoices(k) ==
    {{}} \cup (IF k < MaxInputs THEN {{w} : w \in CheckpointWrites} ELSE {})

RecordFaults(failed, ever) ==
    /\ faults' = [now |-> failed, ever |-> ever \/ failed # {}]
    /\ inputs_used' = inputs_used + Cardinality(failed)

\* a plausible slip: the checkpoint is not copied to the backup directory
save_checkpoint_session_only(log, n) ==
    \E failed \in FaultChoices(inputs_used) :
        /\ session_dir' = WriteCheckpointFiles(session_dir, log, n,
                                               FailedIn(failed, "session"))
        /\ backup_dir' = backup_dir
        /\ global_heartbeat' = WriteGlobalHeartbeats(global_heartbeat,
                                   Heartbeat(n, "running"), Heartbeat(n, "running"),
                                   failed)
        /\ RecordFaults(failed, faults.ever)

save_checkpoint(log, n) ==
    \E failed \in FaultChoices(inputs_used) :
        /\ session_dir' = WriteCheckpointFiles(session_dir, log, n,
                                               FailedIn(failed, "session"))
        /\ backup_dir' = WriteCheckpointFiles(backup_dir, log, n,
                                              FailedIn(failed, "backup"))
        /\ global_heartbeat' = WriteGlobalHeartbeats(global_heartbeat,
                                   Heartbeat(n, "running"), Heartbeat(n, "running"),
                                   failed)
        /\ RecordFaults(failed, faults.ever)

\* a new session: the system record, checkpoint 0
StartFresh ==
    /\ pc = "start"
    /\ pc' = "loop"
    /\ runs' = runs + 1
    /\ conversation_log' = <<SystemRecord(system_prompt)>>
    /\ save_checkpoint(conversation_log', 0)
    /\ UNCHANGED <<iteration, context, session_finished, loop_result, final_context,
                   context_was_summarized, driver_prompt_tokens,
                   follow_up_driver_prompt, final_user_prompt, demux,
                   context_log_txt, notes, turns, hist>>
    /\ UNCHANGED outside

\* a plausible slip: the system record is put before the log loaded on resume
ResumedLogWithSystemRecord(latest) ==
    <<SystemRecord(system_prompt)>> \o (IF latest # Absent THEN Get(latest) ELSE <<>>)

\* the log loaded from latest.json of the resume directory, if the file exists
ResumedLog(latest) == IF latest # Absent THEN Get(latest) ELSE <<>>

\* the context loaded from context_log.txt of the resume directory, if it exists
ResumedContext(file) == IF file # Absent THEN Get(file) ELSE <<>>

\* a new process run with --resume-dir naming the session directory
StartResume ==
    /\ pc = "done"
    /\ runs < MaxSessions
    /\ pc' = "loop"
    /\ runs' = runs + 1
    /\ context' = ResumedContext(context_log_txt)
    /\ conversation_log' = ResumedLog(session_dir.latest)
    /\ iteration' = MaxIterationIn(DOMAIN session_dir.iter) + 1
    /\ \E failed \in FaultChoices(inputs_used) :
         /\ session_dir' = WriteCheckpointFiles(session_dir, conversation_log', 0,
                                                FailedIn(failed, "session"))
         /\ backup_dir' = WriteCheckpointFiles(EmptyDir, conversation_log', 0,
                                               FailedIn(failed, "backup"))
         /\ global_heartbeat' = WriteGlobalHeartbeats(global_heartbeat,
                                    Heartbeat(0, "running"), Heartbeat(0, "running"),
                                    failed)
         /\ RecordFaults(failed, FALSE)
    /\ session_finished' = FALSE
    /\ loop_result' = None
    /\ final_context' = <<>>
    /\ context_was_summarized' = FALSE
    /\ driver_prompt_tokens' = 0
    /\ follow_up_driver_prompt' = Absent
    /\ final_user_prompt' = <<>>
    /\ assistant_content' = <<>>
    /\ reasoning_content' = <<>>
    /\ tool_calls' = <<>>
    /\ tool_responses' = <<>>
    /\ denied_tool_calls' = {}
    /\ open_calls' = {}
    /\ agent_ops' = <<>>
    /\ hist' = [NoHist EXCEPT !.max_found = MaxIterationIn(DOMAIN session_dir.iter)]
    /\ UNCHANGED <<context_log_txt, notes, turns>>
    /\ duration_elapsed' = FALSE
    /\ UNCHANGED call

(***************************************************************************)
(* run_autonomous_mode: the loop, up to the submission to the Agent        *)
(***************************************************************************)
\* a plausible slip: the --duration minutes end the loop
LoopConditionWithDuration == ~session_finished /\ ~duration_elapsed

\* while !session_finished
LoopCondition == ~session_finished

prompt_template(n) ==
    IF n = 1 THEN initial_prompt_template ELSE continuation_prompt_template

\* the token check of the rendered driver prompt, and what follows it
CheckDriverPrompt(fc) ==
    LET driver_prompt == inject_template_variables(prompt_template(iteration'),
                                                   config_content, fc)
    IN /\ driver_prompt_tokens' = count_tokens(driver_prompt)
       /\ IF driver_prompt_tokens' > Threshold
          THEN pc' = "exit" /\ loop_result' = "err"
          ELSE pc' = "driver" /\ loop_result' = loop_result

\* what made generate_user_prompt fail
FailureCause(o) == IF o.kind = "tools_mkdir" THEN "supervisor_tool" ELSE "driver_client"

BeginHist == [hist EXCEPT !.turn_start = Len(conversation_log),
                          !.context_tokens = count_tokens(context),
                          !.summarizer_ran = FALSE,
                          !.driver_calls = <<>>,
                          !.driver_text = <<>>,
                          !.ended_by = "none",
                          !.foreign = <<>>,
                          !.executed = {},
                          !.summary = Absent,
                          !.gates = <<>>,
                          !.first_turn = IF @ = 0 THEN iteration' ELSE @]

\* the top of the loop when the context is within the token budget
IterationBegin ==
    /\ pc = "loop"
    /\ LoopCondition
    /\ turns < MaxTurns
    /\ ~NeedsSummarization(count_tokens(context))
    /\ turns' = turns + 1
    /\ iteration' = iteration + 1
    /\ final_context' = context
    /\ context_was_summarized' = FALSE
    /\ CheckDriverPrompt(final_context')
    /\ follow_up_driver_prompt' = Absent
    /\ hist' = [BeginHist EXCEPT !.cause = IF driver_prompt_tokens' > Threshold
                                           THEN "token_budget" ELSE @]
    /\ UNCHANGED <<context, conversation_log, session_finished, final_user_prompt,
                   demux, disk, notes, runs, inputs_used>>
    /\ UNCHANGED outside

\* a plausible slip: the log is cut down to its system record with the context
SummarizedLogTruncated(log) == SubSeq(log, 1, 1)

\* the log after summarize_context: only the context string is summarized
SummarizedLog(log) == log

\* the top of the loop when the context is over the budget: summarize_context,
\* whose Driver call works on ./logs and whose tool results are dropped
IterationBeginSummarize ==
    /\ pc = "loop"
    /\ LoopCondition
    /\ turns < MaxTurns
    /\ NeedsSummarization(count_tokens(context))
    /\ turns' = turns + 1
    /\ iteration' = iteration + 1
    /\ follow_up_driver_prompt' = Absent
    /\ \E o \in DriverOutcomes(SummaryTexts, SideCallVariants, inputs_used) :
         LET r == generate_user_prompt(o, notes.logs) IN
         /\ notes' = [notes EXCEPT !.logs = r.files]
         /\ inputs_used' = inputs_used + Len(o.calls)
         /\ IF r.ok
            THEN /\ final_context' = r.text
                 /\ context_was_summarized' = TRUE
                 /\ CheckDriverPrompt(final_context')
                 /\ hist' = [BeginHist EXCEPT !.summary = Some(r.text),
                                              !.executed = ExecutedCalls(o),
                                              !.summarizer_ran = TRUE,
                                              !.cause = IF driver_prompt_tokens' > Threshold
                                                        THEN "token_budget" ELSE @]
            ELSE /\ final_context' = context
                 /\ context_was_summarized' = FALSE
                 /\ pc' = "exit"
                 /\ loop_result' = "err"
                 /\ hist' = [BeginHist EXCEPT !.cause = FailureCause(o),
                                              !.executed = ExecutedCalls(o),
                                              !.summarizer_ran = TRUE]
                 /\ UNCHANGED driver_prompt_tokens
    /\ conversation_log' = SummarizedLog(conversation_log)
    /\ UNCHANGED <<context, session_finished, final_user_prompt, demux, disk, runs>>
    /\ UNCHANGED outside

\* the user record mirroring the Driver's tool calls
MirroredCalls(tool_results) ==
    [i \in 1..Len(tool_results) |->
        [id |-> tool_results[i].tool_call_id, type |-> "function",
         name |-> tool_results[i].tool_name, arguments |-> <<"{}">>]]

ToolRecords(tool_results) ==
    [i \in 1..Len(tool_results) |->
        ToolRecord(tool_results[i].tool_call_id, tool_results[i].content)]

\* serde_json::to_string_pretty(&tool_results)
ToolResultsJson(tool_results) ==
    Flatten([i \in 1..Len(tool_results) |->
               <<"{", tool_results[i].tool_call_id, tool_results[i].tool_name>>
                 \o tool_results[i].content \o <<"}">>])

FollowUpPrompt(fc, tool_results) ==
    inject_template_variables(continuation_prompt_template, config_content,
                              fc \o <<"\n\nTool Results:\n">> \o ToolResultsJson(tool_results))

FinishedIter(r) == IF r.finished /\ hist.finished_iter = 0 THEN iteration
                   ELSE hist.finished_iter

\* generate_user_prompt fails: the iteration fails
DriverFails ==
    /\ pc = "driver"
    /\ \E o \in DriverOutcomes(InstructionTexts, ToolCallVariants, inputs_used) :
         LET r == generate_user_prompt(o, notes.session) IN
         /\ ~r.ok
         /\ notes' = [notes EXCEPT !.session = r.files]
         /\ inputs_used' = inputs_used + Len(o.calls)
         /\ hist' = [hist EXCEPT !.finished_iter = FinishedIter(r),
                                  !.executed = @ \cup ExecutedCalls(o),
                                  !.cause = FailureCause(o)]
    /\ pc' = "exit"
    /\ loop_result' = "err"
    /\ UNCHANGED <<iteration, context, conversation_log, session_finished,
                   final_context, context_was_summarized, driver_prompt_tokens,
                   follow_up_driver_prompt, final_user_prompt, demux, disk, runs,
                   turns>>
    /\ UNCHANGED outside

\* the Driver answers with an instruction and no tool call
DriverInstructs ==
    /\ pc = "driver"
    /\ \E o \in DriverOutcomes(InstructionTexts, ToolCallVariants, inputs_used) :
         LET r == generate_user_prompt(o, notes.session) IN
         /\ r.ok
         /\ r.tool_results = <<>>
         /\ conversation_log' = Append(conversation_log, UserRecord(r.text))
         /\ final_user_prompt' = r.text
    /\ pc' = "submit"
    /\ UNCHANGED <<iteration, context, session_finished, loop_result, final_context,
                   context_was_summarized, driver_prompt_tokens,
                   follow_up_driver_prompt, demux, disk, notes, runs, turns,
                   inputs_used, hist>>
    /\ UNCHANGED outside

\* the Driver made tool calls: their records, then the follow-up Driver call
DriverCallsTools ==
    /\ pc = "driver"
    /\ \E o \in DriverOutcomes(InstructionTexts, ToolCallVariants, inputs_used) :
         LET r == generate_user_prompt(o, notes.session)
             log1 == Append(conversation_log,
                            UserToolCallsRecord(r.text, MirroredCalls(r.tool_results)))
                       \o ToolRecords(r.tool_results)
         IN
         /\ r.ok
         /\ r.tool_results # <<>>
         /\ follow_up_driver_prompt' = Some(FollowUpPrompt(final_context, r.tool_results))
         /\ \E o2 \in DriverOutcomes(InstructionTexts, SideCallVariants, inputs_used + Len(o.calls)) :
              LET r2 == generate_user_prompt(o2, r.files) IN
              /\ notes' = [notes EXCEPT !.session = r2.files]
              /\ inputs_used' = inputs_used + Len(o.calls) + Len(o2.calls)
              /\ hist' = [hist EXCEPT !.driver_calls = o.calls,
                                       !.executed = @ \cup ExecutedCalls(o)
                                                      \cup ExecutedCalls(o2),
                                       !.driver_text = Trim(ResponseText(o)),
                                       !.finished_iter =
                            IF r.finished THEN FinishedIter(r) ELSE FinishedIter(r2),
                                       !.cause = IF r2.ok THEN @ ELSE FailureCause(o2)]
              /\ IF r2.ok
                 THEN /\ conversation_log' = Append(log1, UserRecord(r2.text))
                      /\ final_context' = final_context \o <<"\n\nUSER: ">> \o r2.text
                                            \o <<"\n\nASSISTANT: ">> \o r2.text
                      /\ final_user_prompt' = r2.text
                      /\ pc' = "submit"
                      /\ loop_result' = loop_result
                 ELSE /\ conversation_log' = log1
                      /\ pc' = "exit"
                      /\ loop_result' = "err"
                      /\ UNCHANGED <<final_context, final_user_prompt>>
    /\ UNCHANGED <<iteration, context, session_finished, context_was_summarized,
                   driver_prompt_tokens, demux, disk, runs, turns>>
    /\ UNCHANGED outside

\* codex.submit(UserInput): a submission id, or a failure
Submit ==
    /\ pc = "submit"
    /\ \E ok \in BOOLEAN :
         IF ok THEN pc' = "collect" /\ loop_result' = loop_result /\ hist' = hist
         ELSE /\ pc' = "exit"
              /\ loop_result' = "err"
              /\ hist' = [hist EXCEPT !.cause = "submit"]
    /\ assistant_content' = <<>>
    /\ reasoning_content' = <<>>
    /\ tool_calls' = <<>>
    /\ tool_responses' = <<>>
    /\ denied_tool_calls' = {}
    /\ open_calls' = {}
    /\ agent_ops' = <<>>
    /\ UNCHANGED <<iteration, context, conversation_log, session_finished,
                   final_context, context_was_summarized, driver_prompt_tokens,
                   follow_up_driver_prompt, final_user_prompt, disk, notes, runs,
                   turns, inputs_used>>
    /\ UNCHANGED outside

(***************************************************************************)
(* collect_codex_response_with_tools: one action per event of the stream   *)
(***************************************************************************)
AgentTexts == {<<"hi">>}
ReasoningTexts == {<<"think">>, <<" ">>}

\* the id the Agent gives the call it begins now
NewCallId == "c" \o ToString(inputs_used + 1)
\* the clock reading (milliseconds) that names a synthetic record
Millis == ToString(inputs_used + 1)

FunctionCall(id, name, arguments) ==
    [id |-> id, type |-> "function", name |-> name, arguments |-> arguments]
SystemCall(id, name) ==
    [id |-> id, type |-> "system", name |-> name, arguments |-> <<"{}">>]

\* a plausible slip: events are still taken after the terminating event
CollectingAfterReturn == pc \in {"collect", "collected"} /\ inputs_used < MaxInputs

\* while !task_complete: an event is taken from the stream
Collecting == pc = "collect" /\ inputs_used < MaxInputs

\* what an event leaves alone besides the buffers of the demultiplexer
EventFrame == UNCHANGED <<pc, controller, disk, runs, turns, outside>>

\* an event whose handling calls no Driver
PlainEvent == inputs_used' = inputs_used + 1 /\ UNCHANGED <<notes, hist>>

EvAgentMessage ==
    /\ Collecting
    /\ \E m \in AgentTexts : assistant_content' = assistant_content \o m \o <<"\n">>
    /\ EventFrame
    /\ PlainEvent
    /\ UNCHANGED <<reasoning_content, tool_calls, tool_responses, denied_tool_calls,
                   open_calls, agent_ops>>

EvAgentReasoning ==
    /\ Collecting
    /\ \E t \in ReasoningTexts : reasoning_content' = reasoning_content \o t \o <<"\n">>
    /\ EventFrame
    /\ PlainEvent
    /\ UNCHANGED <<assistant_content, tool_calls, tool_responses, denied_tool_calls,
                   open_calls, agent_ops>>

EvExecCommandBegin ==
    /\ Collecting
    /\ tool_calls' = Append(tool_calls,
                            FunctionCall("exec_" \o NewCallId, "bash", <<"cmd">>))
    /\ open_calls' = open_calls \cup {[kind |-> "exec", id |-> NewCallId]}
    /\ EventFrame
    /\ PlainEvent
    /\ UNCHANGED <<assistant_content, reasoning_content, tool_responses,
                   denied_tool_calls, agent_ops>>

EvExecCommandEnd ==
    /\ Collecting
    /\ \E c \in {x \in open_calls : x.kind = "exec"} :
         /\ tool_responses' = Append(tool_responses,
                                     ToolRecord("exec_" \o c.id, <<"{exit_code,stdout,stderr}">>))
         /\ open_calls' = open_calls \ {c}
    /\ EventFrame
    /\ PlainEvent
    /\ UNCHANGED <<assistant_content, reasoning_content, tool_calls,
                   denied_tool_calls, agent_ops>>

\* a tool other than bugcrowd_submit: the call is mirrored
EvMcpToolCallBegin ==
    /\ Collecting
    /\ tool_calls' = Append(tool_calls, FunctionCall(NewCallId, "other_tool", <<"args">>))
    /\ open_calls' = open_calls \cup {[kind |-> "mcp", id |-> NewCallId]}
    /\ EventFrame
    /\ PlainEvent
    /\ UNCHANGED <<assistant_content, reasoning_content, tool_responses,
                   denied_tool_calls, agent_ops>>

GateEntry(gate, id, r, approved) ==
    [gate |-> gate, call_id |-> id, answered |-> r.ok, response |-> r.text,
     approved |-> approved]

\* bugcrowd_submit: the Bugcrowd approval gate decides whether it is mirrored
EvBugcrowdSubmitBegin ==
    /\ Collecting
    /\ \E o \in DriverOutcomes(ApprovalAnswers, SideCallVariants, inputs_used + 1) :
         LET r == generate_user_prompt(o, notes.session)
             verdict == parse_approval_response(r.text)
         IN
         /\ notes' = [notes EXCEPT !.session = r.files]
         /\ inputs_used' = inputs_used + 1 + Len(o.calls)
         /\ IF r.ok
            THEN IF verdict.approved
                 THEN /\ tool_calls' = Append(tool_calls,
                            FunctionCall(NewCallId, "bugcrowd_submit", <<"args">>))
                      /\ UNCHANGED <<tool_responses, denied_tool_calls>>
                 ELSE /\ denied_tool_calls' = denied_tool_calls \cup {NewCallId}
                      /\ tool_responses' = Append(tool_responses,
                            ToolRecord(NewCallId,
                               <<"Bugcrowd submission denied by security review: ">>
                                 \o verdict.reasoning))
                      /\ UNCHANGED tool_calls
            ELSE /\ tool_responses' = Append(tool_responses,
                       ToolRecord(NewCallId,
                          <<"Bugcrowd submission failed due to approval error: ", "err">>))
                 /\ UNCHANGED <<tool_calls, denied_tool_calls>>
         /\ hist' = [hist EXCEPT !.gates = Append(@,
                        GateEntry("bugcrowd", NewCallId, r, r.ok /\ verdict.approved)),
                                  !.executed = @ \cup ExecutedCalls(o)]
    /\ open_calls' = open_calls \cup {[kind |-> "mcp", id |-> NewCallId]}
    /\ EventFrame
    /\ UNCHANGED <<assistant_content, reasoning_content, agent_ops>>

\* a plausible slip: the result of a denied call is recorded like any other
McpEndResponsesNoSkip(responses, denied, call_id, result) ==
    IF result = "Ok"
    THEN Append(responses, ToolRecord(call_id, <<"success">>))
    ELSE Append(responses, ToolRecord(call_id, <<"Error: ", "err">>))

\* tool_responses after McpToolCallEnd{call_id, result}
McpEndResponses(responses, denied, call_id, result) ==
    IF call_id \in denied THEN responses
    ELSE IF result = "Ok"
    THEN Append(responses, ToolRecord(call_id, <<"success">>))
    ELSE Append(responses, ToolRecord(call_id, <<"Error: ", "err">>))

EvMcpToolCallEnd ==
    /\ Collecting
    /\ \E c \in {x \in open_calls : x.kind = "mcp"}, result \in {"Ok", "Err"} :
         /\ tool_responses' =
               McpEndResponses(tool_responses, denied_tool_calls, c.id, result)
         /\ open_calls' = open_calls \ {c}
    /\ EventFrame
    /\ PlainEvent
    /\ UNCHANGED <<assistant_content, reasoning_content, tool_calls,
                   denied_tool_calls, agent_ops>>

\* the ReviewDecision of a gate
Decision(approved) == IF approved THEN "Approved" ELSE "Denied"

\* the id of the events of this turn: the id codex.submit returned
EventId == "sub_" \o ToString(turns)

\* a plausible slip: a patch decision is sent by the operation of exec requests
ApprovalOpAlwaysExec(op, decision) ==
    [op |-> "ExecApproval", id |-> EventId, decision |-> decision]

\* Op::ExecApproval { id, decision } or Op::PatchApproval { id, decision }
ApprovalOp(op, decision) == [op |-> op, id |-> EventId, decision |-> decision]

\* the general approval gate of an exec or patch approval request
GeneralGate(gate, call_name, op) ==
    /\ Collecting
    /\ \E o \in DriverOutcomes(ApprovalAnswers, SideCallVariants, inputs_used + 1) :
         LET r == generate_user_prompt(o, notes.session)
             approved == r.ok /\ GeneralGateApproves(r.text)
             approval_id == gate \o "_" \o Millis
         IN
         /\ notes' = [notes EXCEPT !.session = r.files]
         /\ inputs_used' = inputs_used + 1 + Len(o.calls)
         /\ tool_calls' = Append(tool_calls, FunctionCall(approval_id, call_name, <<"request">>))
         /\ tool_responses' = Append(tool_responses,
                ToolRecord(approval_id, <<"decision: ", Decision(approved)>>))
         /\ agent_ops' = Append(agent_ops, ApprovalOp(op, Decision(approved)))
         /\ hist' = [hist EXCEPT !.gates = Append(@, GateEntry(gate, approval_id, r, approved)),
                                  !.executed = @ \cup ExecutedCalls(o)]
    /\ EventFrame
    /\ UNCHANGED <<assistant_content, reasoning_content, denied_tool_calls, open_calls>>

EvExecApprovalRequest == GeneralGate("approval", "request_approval", "ExecApproval")

EvApplyPatchApprovalRequest ==
    GeneralGate("patch_approval", "request_patch_approval", "PatchApproval")

\* TaskStarted, TokenCount, BackgroundEvent: a system-kind tool call
EvSystemEvent ==
    /\ Collecting
    /\ \E name \in {"task_started", "token_count", "background_event"} :
         tool_calls' = Append(tool_calls, SystemCall("event_" \o name \o "_" \o Millis, name))
    /\ EventFrame
    /\ PlainEvent
    /\ UNCHANGED <<assistant_content, reasoning_content, tool_responses,
                   denied_tool_calls, open_calls, agent_ops>>

EvPatchApplyBegin ==
    /\ Collecting
    /\ tool_calls' = Append(tool_calls,
                            FunctionCall("patch_" \o NewCallId, "apply_patch", <<"patch">>))
    /\ open_calls' = open_calls \cup {[kind |-> "patch", id |-> NewCallId]}
    /\ EventFrame
    /\ PlainEvent
    /\ UNCHANGED <<assistant_content, reasoning_content, tool_responses,
                   denied_tool_calls, agent_ops>>

EvPatchApplyEnd ==
    /\ Collecting
    /\ \E c \in {x \in open_calls : x.kind = "patch"} :
         /\ tool_responses' = Append(tool_responses,
                                     ToolRecord("patch_" \o c.id, <<"patch result">>))
         /\ open_calls' = open_calls \ {c}
    /\ EventFrame
    /\ PlainEvent
    /\ UNCHANGED <<assistant_content, reasoning_content, tool_calls,
                   denied_tool_calls, agent_ops>>

\* an event of a kind the demultiplexer only logs
EvIgnored ==
    /\ Collecting
    /\ EventFrame
    /\ PlainEvent
    /\ UNCHANGED <<demux>>

\* a plausible slip: an Error event of the Agent fails the iteration
AfterTerminatingEventErrorFatal(kind) == IF kind = "Error" THEN "exit" ELSE "collected"

\* where the controller stands after TaskComplete or Error: task_complete is
\* set and the turn record is returned with Ok
AfterTerminatingEvent(kind) == "collected"

\* TaskComplete or Error of this submission: the turn record is returned
EvTaskCompleteOrError ==
    /\ pc = "collect"
    /\ \E kind \in {"TaskComplete", "Error"} :
         /\ pc' = AfterTerminatingEvent(kind)
         /\ hist' = [hist EXCEPT !.ended_by = kind]
    /\ UNCHANGED <<controller, demux, disk, notes, runs, turns, inputs_used>>
    /\ UNCHANGED outside

\* a plausible slip: the id of an event is not compared
EventMatchesAny(id) == TRUE

\* if event.id == submission_id
EventMatches(id) == id = EventId

\* the id of an earlier submission of the conversation
OtherSubmissionId == "sub_0"
ForeignKinds == {"AgentMessage", "TaskComplete", "Error"}

\* an event that carries the id of another submission
EvOtherSubmission ==
    /\ Collecting
    /\ \E kind \in ForeignKinds :
         /\ hist' = [hist EXCEPT !.foreign = Append(@, kind)]
         /\ IF ~EventMatches(OtherSubmissionId)
            THEN pc' = pc /\ UNCHANGED demux
            ELSE IF kind = "AgentMessage"
            THEN /\ pc' = pc
                 /\ assistant_content' = assistant_content \o <<"hi", "\n">>
                 /\ UNCHANGED <<reasoning_content, tool_calls, tool_responses,
                                denied_tool_calls, open_calls, agent_ops>>
            ELSE pc' = AfterTerminatingEvent(kind) /\ UNCHANGED demux
    /\ inputs_used' = inputs_used + 1
    /\ UNCHANGED <<controller, disk, notes, runs, turns, outside>>

\* a plausible slip: the reasoning buffer is returned without the emptiness test
ReturnedReasoningUntrimmed == reasoning_content

\* the reasoning the demultiplexer returns: None when only whitespace
ReturnedReasoning == Trim(reasoning_content)

\* a plausible slip: the tool calls are appended before the reasoning
TurnRecordsToolCallsFirst ==
    (IF tool_calls # <<>> THEN <<AssistantToolCallsRecord(tool_calls)>> ELSE <<>>)
    \o (IF Trim(reasoning_content) # <<>>
        THEN <<ReasoningRecord(Trim(reasoning_content))>> ELSE <<>>)
    \o tool_responses
    \o <<AssistantRecord(Trim(assistant_content))>>

\* a plausible slip: an empty answer of the Agent is not logged
TurnRecordsSkipEmptyAnswer ==
    (IF Trim(reasoning_content) # <<>>
     THEN <<ReasoningRecord(Trim(reasoning_content))>> ELSE <<>>)
    \o (IF tool_calls # <<>> THEN <<AssistantToolCallsRecord(tool_calls)>> ELSE <<>>)
    \o tool_responses
    \o (IF Trim(assistant_content) # <<>>
        THEN <<AssistantRecord(Trim(assistant_content))>> ELSE <<>>)

\* the records of the Agent turn, in the order they are appended
TurnRecords ==
    (IF ReturnedReasoning # <<>> THEN <<ReasoningRecord(ReturnedReasoning)>> ELSE <<>>)
    \o (IF tool_calls # <<>> THEN <<AssistantToolCallsRecord(tool_calls)>> ELSE <<>>)
    \o tool_responses
    \o <<AssistantRecord(Trim(assistant_content))>>

\* a plausible slip: what was collected before the failure is logged
DiscardTurnFlushes(log, records) == log \o records

\* the log after collect_codex_response_with_tools returned an error: the
\* buffers of the turn are dropped with the function's frame
DiscardTurn(log, records) == log

\* next_event fails: the iteration fails and the buffers are dropped
EvStreamError ==
    /\ pc = "collect"
    /\ pc' = "exit"
    /\ loop_result' = "err"
    /\ conversation_log' = DiscardTurn(conversation_log, TurnRecords)
    /\ hist' = [hist EXCEPT !.cause = "agent_stream"]
    /\ UNCHANGED <<iteration, context, session_finished,
                   final_context, context_was_summarized, driver_prompt_tokens,
                   follow_up_driver_prompt, final_user_prompt, demux, disk, notes,
                   runs, turns, inputs_used>>
    /\ UNCHANGED outside

(***************************************************************************)
(* run_autonomous_mode: the end of an iteration, and the exit              *)
(***************************************************************************)
\* the context kept for the next iteration
NextContext(log) == IF context_was_summarized THEN final_context ELSE readable_context(log)

\* the records are appended, the context rebuilt, the checkpoint written
FinishIteration ==
    /\ pc = "collected"
    /\ pc' = "loop"
    /\ conversation_log' = conversation_log \o TurnRecords
    /\ context' = NextContext(conversation_log')
    /\ context_log_txt' = Some(context')
    /\ save_checkpoint(conversation_log', iteration)
    /\ UNCHANGED <<iteration, session_finished, loop_result, final_context,
                   context_was_summarized, driver_prompt_tokens,
                   follow_up_driver_prompt, final_user_prompt, demux, notes, runs,
                   turns, hist>>
    /\ UNCHANGED outside

\* the --duration minutes pass while the loop pauses between two iterations
DurationElapses ==
    /\ pc = "loop"
    /\ ~duration_elapsed
    /\ inputs_used < MaxInputs
    /\ duration_elapsed' = TRUE
    /\ inputs_used' = inputs_used + 1
    /\ UNCHANGED <<pc, controller, demux, disk, notes, runs, turns, hist, call>>

\* the loop has ended: with an error, or because session_finished was set
LoopEnded == IF pc = "loop" THEN ~LoopCondition ELSE pc = "exit"

\* the final checkpoint and the final global heartbeat
FinalCheckpoint ==
    /\ LoopEnded
    /\ pc' = "done"
    /\ loop_result' = IF pc = "loop" THEN "ok" ELSE loop_result
    /\ \E failed \in FaultChoices(inputs_used) :
         /\ session_dir' = WriteCheckpointFiles(session_dir, conversation_log, iteration,
                                                FailedIn(failed, "session"))
         /\ backup_dir' = WriteCheckpointFiles(backup_dir, conversation_log, iteration,
                                               FailedIn(failed, "backup"))
         /\ global_heartbeat' = WriteGlobalHeartbeats(global_heartbeat,
                                    Heartbeat(iteration, FinalStatus(loop_result')),
                                    Heartbeat(iteration, "running"), failed)
         /\ RecordFaults(failed, faults.ever)
    /\ UNCHANGED <<iteration, context, conversation_log, session_finished,
                   final_context, context_was_summarized, driver_prompt_tokens,
                   follow_up_driver_prompt, final_user_prompt, demux,
                   context_log_txt, notes, runs, turns, hist>>
    /\ UNCHANGED outside

Next ==
    \/ StartFresh
    \/ StartResume
    \/ IterationBegin
    \/ IterationBeginSummarize
    \/ DriverFails
    \/ DriverInstructs
    \/ DriverCallsTools
    \/ Submit
    \/ EvAgentMessage
    \/ EvAgentReasoning
    \/ EvExecCommandBegin
    \/ EvExecCommandEnd
    \/ EvMcpToolCallBegin
    \/ EvBugcrowdSubmitBegin
    \/ EvMcpToolCallEnd
    \/ EvExecApprovalRequest
    \/ EvApplyPatchApprovalRequest
    \/ EvSystemEvent
    \/ EvPatchApplyBegin
    \/ EvPatchApplyEnd
    \/ EvIgnored
    \/ EvOtherSubmission
    \/ EvTaskCompleteOrError
    \/ EvStreamError
    \/ FinishIteration
    \/ DurationElapses
    \/ FinalCheckpoint

Spec == Init /\ [][Next]_vars

(***************************************************************************)
(* The pure functions, applied to arguments drawn from bounded sets        *)
(***************************************************************************)
\* answers of the approval Driver: leading whitespace, a verdict word or
\* another word, and what follows it
ApprovalLeads == {<<>>, <<" ">>}
ApprovalWords ==
    {W_approve, W_APPROVE, <<"A">> \o Tail(W_approve), W_deny, W_DENY,
     <<"n", "o", "t", " ">> \o W_approve, <<"o", "k">>, <<>>}
ApprovalRests ==
    {<<>>, W_dash \o <<"o", "k">>, <<"d">>, <<" ">> \o W_APPROVE}
ApprovalResponses ==
    {l \o w \o r : l \in ApprovalLeads, w \in ApprovalWords, r \in ApprovalRests}

\* templates and values, some of which hold the text of a placeholder
approval_prompt_template ==
    <<"REVIEW ", "{command}", "{cwd}", "{reason}", "{task_context}", "{changes}",
      "{command}">>
TemplateTexts ==
    {initial_prompt_template, continuation_prompt_template,
     summarization_prompt_template, <<"{context}", " and ", "{context}">>}
ConfigTexts == {<<"task">>, <<"see ", "{context}">>, <<"{changes}">>}
ContextTexts == {<<>>, <<"ctx">>, <<"{config_yaml}", "x">>}
CommandTexts == {<<"ls">>, <<"echo ", "{task_context}">>, <<"echo ", "{reason}">>}
CwdTexts == {<<"/tmp">>, <<"/", "{reason}">>}
ReasonTexts == {<<"No reason provided">>, <<"see ", "{task_context}">>}
ChangesTexts == {<<"diff">>, <<"diff ", "{command}">>}

\* the highest iteration a session wrote before it is resumed
HighestIterations == {0, 1, 9, 10, 99, 100, 999, 1000, 1001}

FunctionCalls ==
    {[fn |-> "parse_approval_response", args |-> [response |-> r], result |-> Absent] :
        r \in ApprovalResponses}
    \cup {[fn |-> "inject_template_variables",
           args |-> [template |-> t, config_yaml |-> c, context |-> x],
           result |-> Absent] :
             t \in TemplateTexts, c \in ConfigTexts, x \in ContextTexts}
    \cup {[fn |-> "inject_approval_variables_with_context",
           args |-> [template |-> approval_prompt_template, command |-> c, cwd |-> d,
                     reason |-> r, config_content |-> k],
           result |-> Absent] :
             c \in CommandTexts, d \in CwdTexts, r \in ReasonTexts, k \in ConfigTexts}
    \cup {[fn |-> "inject_patch_approval_variables_with_context",
           args |-> [template |-> approval_prompt_template,
                     command |-> <<"Apply patch to 1 files">>, changes |-> c,
                     reason |-> r, config_content |-> k],
           result |-> Absent] :
             c \in ChangesTexts, r \in ReasonTexts, k \in ConfigTexts}

    \cup {[fn |-> "max_iteration", args |-> [highest |-> n], result |-> Absent] :
             n \in HighestIterations}

InitFunctions == InitProgram /\ call \in FunctionCalls

Pending(fn) == call.fn = fn /\ call.result = Absent

Returns(value) == call' = [call EXCEPT !.result = Some(value)] /\ UNCHANGED program

ApplyParseApprovalResponse ==
    /\ Pending("parse_approval_response")
    /\ Returns(parse_approval_response(call.args.response))

ApplyInjectTemplateVariables ==
    /\ Pending("inject_template_variables")
    /\ Returns(inject_template_variables(call.args.template, call.args.config_yaml,
                                         call.args.context))

ApplyInjectApprovalVariables ==
    /\ Pending("inject_approval_variables_with_context")
    /\ Returns(inject_approval_variables_with_context(
                  call.args.template, call.args.command, call.args.cwd,
                  call.args.reason, call.args.config_content))

ApplyInjectPatchApprovalVariables ==
    /\ Pending("inject_patch_approval_variables_with_context")
    /\ Returns(inject_patch_approval_variables_with_context(
                  call.args.template, call.args.command, call.args.changes,
                  call.args.reason, call.args.config_content))

ApplyMaxIteration ==
    /\ Pending("max_iteration")
    /\ Returns(ResumeMaxIteration(call.args.highest))

NextFunctions ==
    \/ ApplyParseApprovalResponse
    \/ ApplyInjectTemplateVariables
    \/ ApplyInjectApprovalVariables
    \/ ApplyInjectPatchApprovalVariables
    \/ ApplyMaxIteration

SpecFunctions == InitFunctions /\ [][NextFunctions]_vars

(***************************************************************************)
(* The Agent emits TaskComplete or Error for every submission it accepted  *)
(***************************************************************************)
SpecAgentTerminates == Spec /\ WF_vars(EvTaskCompleteOrError)

(***************************************************************************)
(* Properties                                                              *)
(***************************************************************************)
DenialPrefix == "Bugcrowd submission denied by security review: "

\* the answer, trimmed, starts with `approve` / `deny` whatever the case
LeadingApprove(response) == StartsWith(ToLower(Trim(response)), W_approve)
LeadingDeny(response) == StartsWith(ToLower(Trim(response)), W_deny)

\* the indices of the turn's tool responses that answer call id
ResponsesFor(id) == {i \in 1..Len(tool_responses) : tool_responses[i].tool_call_id = id}

Mirrored(id) == \E i \in 1..Len(tool_calls) : tool_calls[i].id = id

\* the result of the call's McpToolCallEnd is among the tool responses
ResultRecorded(id) ==
    \E i \in ResponsesFor(id) : tool_responses[i].content[1] \in {"success", "Error: "}

BugcrowdGates == {i \in 1..Len(hist.gates) : hist.gates[i].gate = "bugcrowd"}

\* C1: once the Driver has called `finished` in iteration N, no iteration N+1
\* starts.
C1_NoIterationAfterFinished ==
    hist.finished_iter # 0 => iteration <= hist.finished_iter

\* C2: a bugcrowd_submit call whose approval prompt the Driver answered is passed
\* through (mirrored as an assistant tool call, its End result recorded) only if
\* the answer, trimmed, starts with `approve` case-insensitively; an answer that
\* starts with neither `approve` nor `deny` is a denial.
C2_BugcrowdPassedOnlyOnLeadingApprove ==
    \A i \in BugcrowdGates :
        LET g == hist.gates[i] IN
        /\ Mirrored(g.call_id) => g.answered /\ LeadingApprove(g.response)
        /\ (g.answered /\ ResultRecorded(g.call_id)) => LeadingApprove(g.response)
        /\ (g.answered /\ ~LeadingApprove(g.response) /\ ~LeadingDeny(g.response))
               => /\ ~g.approved
                  /\ g.call_id \in denied_tool_calls
                  /\ ~Mirrored(g.call_id)
                  /\ ~ResultRecorded(g.call_id)

\* C2 witness: the Driver answered the approval prompt of a bugcrowd_submit call
\* with a leading `approve`; the call was mirrored and its result recorded.
C2_Witness ==
    \E i \in BugcrowdGates :
        LET g == hist.gates[i] IN
        /\ g.answered
        /\ LeadingApprove(g.response)
        /\ Mirrored(g.call_id)
        /\ ResultRecorded(g.call_id)

\* C3: a denied bugcrowd_submit call has exactly one tool response in the turn
\* record, the synthetic denial, also after its McpToolCallEnd has arrived.
C3_DeniedCallHasOnlyTheDenial ==
    \A id \in denied_tool_calls :
        /\ Cardinality(ResponsesFor(id)) = 1
        /\ \A i \in ResponsesFor(id) : tool_responses[i].content[1] = DenialPrefix

\* C3 witness: the McpToolCallEnd of a denied call has been processed.
C3_Witness ==
    \E id \in denied_tool_calls :
        /\ [kind |-> "mcp", id |-> id] \notin open_calls
        /\ pc = "collect"

\* C4: in every approval gate, approval is granted only when the Driver answer
\* begins with `approve` (case-insensitive).
C4_ApprovalOnlyOnLeadingApprove ==
    \A i \in 1..Len(hist.gates) :
        hist.gates[i].approved =>
            hist.gates[i].answered /\ LeadingApprove(hist.gates[i].response)

HasToolCall(msg, id) ==
    /\ msg.role \in {"assistant", "user"}
    /\ HasField(msg, "tool_calls")
    /\ \E k \in 1..Len(msg.tool_calls) : msg.tool_calls[k].id = id

\* C5: every tool record of the log answers a tool call of an earlier assistant
\* or user record.
C5_ToolRecordsAnswerEarlierCalls ==
    \A i \in 1..Len(conversation_log) :
        conversation_log[i].role = "tool" =>
            \E j \in 1..(i - 1) :
                HasToolCall(conversation_log[j], conversation_log[i].tool_call_id)

IsAssistantContent(msg) ==
    msg.role = "assistant" /\ ~HasField(msg, "reasoning") /\ ~HasField(msg, "tool_calls")

\* every user or tool record of the log is followed by the final assistant
\* content record of its turn
WholeIterations(log) ==
    \A i \in 1..Len(log) :
        log[i].role \in {"user", "tool"} =>
            \E j \in (i + 1)..Len(log) : IsAssistantContent(log[j])

\* C6: latest.json always holds the log of a whole-iteration boundary.
C6_LatestIsWholeIteration ==
    /\ session_dir.latest # Absent => WholeIterations(Get(session_dir.latest))
    /\ backup_dir.latest # Absent => WholeIterations(Get(backup_dir.latest))

\* C7: the first turn of a resumed run is numbered one more than the highest
\* iteration file of the resume directory, and writes the file of that number.
C7_ResumeContinuesNumbering ==
    (runs > 1 /\ hist.first_turn # 0) =>
        /\ hist.first_turn = hist.max_found + 1
        /\ (pc = "loop" /\ iteration = hist.first_turn =>
               /\ IterationFileName(hist.max_found + 1) \in DOMAIN session_dir.iter
               /\ session_dir.info = Some([current_iteration |-> hist.max_found + 1]))

\* C8: when the Agent works on the instruction, every Driver prompt rendered in
\* the iteration to obtain it is within the token budget.
C8_DriverPromptsWithinBudget ==
    pc \in {"collect", "collected"} =>
        /\ driver_prompt_tokens <= Threshold
        /\ follow_up_driver_prompt # Absent =>
               count_tokens(Get(follow_up_driver_prompt)) <= Threshold

\* the records the current iteration has appended to the log
TurnLog == SubSeq(conversation_log, hist.turn_start + 1, Len(conversation_log))

\* C9: after an iteration in which the summariser ran, the context kept (and
\* written to context_log.txt) is the summary followed by the rendered records
\* of that iteration.
C9_ContextIsSummaryPlusTurn ==
    (pc = "loop" /\ context_was_summarized /\ hist.summary # Absent) =>
        /\ context = Get(hist.summary) \o readable_context(TurnLog)
        /\ context_log_txt = Some(context)

\* C10: once the loop has ended the only step left is the final checkpoint; after
\* it every checkpoint file whose write did not fail holds the log under the
\* current iteration index, and the global heartbeat, if written, carries that
\* index with status `completed` if the loop ended without error and `error`
\* otherwise.
C10_FinalCheckpointAndHeartbeat ==
    /\ loop_result # None => pc \in {"exit", "done"}
    /\ pc = "done" =>
          /\ loop_result \in {"ok", "err"}
          /\ <<"session", "iteration">> \notin faults.now =>
                /\ IterationFileName(iteration) \in DOMAIN session_dir.iter
                /\ session_dir.iter[IterationFileName(iteration)] = conversation_log
          /\ <<"session", "latest">> \notin faults.now =>
                session_dir.latest = Some(conversation_log)
          /\ <<"session", "info">> \notin faults.now =>
                session_dir.info = Some([current_iteration |-> iteration])
          /\ <<"session", "global">> \notin faults.now =>
                global_heartbeat.main =
                   Some([iteration |-> iteration,
                         status |-> IF loop_result = "ok" THEN "completed" ELSE "error"])

\* C10 witness: a turn failed after the first iteration and the run has ended.
C10_Witness ==
    /\ pc = "done"
    /\ loop_result = "err"
    /\ iteration >= 2
    /\ Get(global_heartbeat.main).status = "error"

\* the backup directory's context_log.txt: no statement of the program writes it
backup_context_log_txt == Absent

\* C11: absent write failures, what the loop has written to the session directory
\* is in the backup directory with the same content, and the two global
\* heartbeat files agree.
C11_BackupMirrorsSession ==
    (runs >= 1 /\ ~faults.ever) =>
        /\ backup_dir.latest = session_dir.latest
        /\ backup_dir.info = session_dir.info
        /\ backup_dir.heartbeat = session_dir.heartbeat
        /\ \A f \in DOMAIN backup_dir.iter :
              f \in DOMAIN session_dir.iter /\ backup_dir.iter[f] = session_dir.iter[f]
        /\ (runs = 1 => DOMAIN backup_dir.iter = DOMAIN session_dir.iter)
        /\ backup_context_log_txt = context_log_txt
        /\ global_heartbeat.backup = global_heartbeat.main

\* C12: after bootstrap the log holds exactly one system record, its first.
C12_ExactlyOneSystemRecordFirst ==
    pc # "start" =>
        /\ Len(conversation_log) >= 1
        /\ conversation_log[1].role = "system"
        /\ \A i \in 2..Len(conversation_log) : conversation_log[i].role # "system"

IsReasoning(msg) == msg.role = "assistant" /\ HasField(msg, "reasoning")
IsToolCalls(msg) ==
    msg.role = "assistant" /\ ~HasField(msg, "reasoning") /\ HasField(msg, "tool_calls")

\* the place of a record of the Agent turn in the order of the claim
Rank(msg) ==
    CASE IsReasoning(msg) -> 1
      [] IsToolCalls(msg) -> 2
      [] msg.role = "tool" -> 3
      [] IsAssistantContent(msg) -> 4
      [] OTHER -> 0

Count(recs, Test(_)) == Cardinality({i \in 1..Len(recs) : Test(recs[i])})

\* at most one reasoning record, then at most one tool-calls record, then tool
\* records, then exactly one assistant content record
AgentRecordsOrdered(recs) ==
    /\ \A i \in 1..Len(recs) : Rank(recs[i]) # 0
    /\ \A i, j \in 1..Len(recs) : i < j => Rank(recs[i]) <= Rank(recs[j])
    /\ Count(recs, IsReasoning) <= 1
    /\ Count(recs, IsToolCalls) <= 1
    /\ Count(recs, IsAssistantContent) = 1

\* the index of the last user record of the current iteration
LastUserIndex ==
    LET us == {i \in 1..Len(TurnLog) : TurnLog[i].role = "user"}
    IN IF us = {} THEN 0 ELSE CHOOSE i \in us : \A j \in us : j <= i

\* an iteration of this run has just been completed
IterationCompleted == pc = "loop" /\ hist.first_turn # 0

\* C13: the records an iteration appends are its user records (with the tool
\* records of the Supervisor tools), then at most one reasoning record, at most
\* one tool-calls record, the tool records and exactly one assistant content
\* record, in this order.
C13_TurnRecordsOrdered ==
    IterationCompleted =>
        /\ LastUserIndex >= 1
        /\ \A i \in 1..LastUserIndex : TurnLog[i].role \in {"user", "tool"}
        /\ AgentRecordsOrdered(SubSeq(TurnLog, LastUserIndex + 1, Len(TurnLog)))

\* C13 witness: a completed iteration appended a reasoning record, a tool-calls
\* record, a tool record and the assistant content record.
C13_Witness ==
    /\ IterationCompleted
    /\ \E i \in 1..Len(TurnLog) : IsReasoning(TurnLog[i])
    /\ \E i \in 1..Len(TurnLog) : IsToolCalls(TurnLog[i])
    /\ \E i \in (LastUserIndex + 1)..Len(TurnLog) : TurnLog[i].role = "tool"

\* C14: a Driver call that fails inside an approval gate ends the loop with an
\* error, like a failure of any other Driver call of the iteration.
C14_DriverFailureInGateSurfaces ==
    \A i \in 1..Len(hist.gates) :
        ~hist.gates[i].answered => pc \in {"exit", "done"} /\ loop_result = "err"

\* C15: no failure of a Supervisor tool ends the loop.
C15_SupervisorToolFailureNotFatal ==
    hist.cause # "supervisor_tool"

\* C16: a text the Driver Client returned with success is not empty: the
\* instruction submitted to the Agent, and the summary.
C16_NoEmptyDriverText ==
    /\ pc = "submit" => final_user_prompt # <<>>
    /\ hist.summary # Absent => Get(hist.summary) # <<>>

\* C17: when the event stream failed, the log holds nothing of the Agent turn:
\* the iteration appended only its user records and the tool records of the
\* Supervisor tools they mirror.
C17_StreamErrorAppendsNothing ==
    hist.cause = "agent_stream" =>
        \A i \in 1..Len(TurnLog) :
            \/ TurnLog[i].role = "user"
            \/ /\ TurnLog[i].role = "tool"
               /\ \E j \in 1..(i - 1) :
                     /\ TurnLog[j].role = "user"
                     /\ HasToolCall(TurnLog[j], TurnLog[i].tool_call_id)

\* C17 witness: the stream failed after text, a tool call and a tool response
\* had been collected.
C17_Witness ==
    /\ hist.cause = "agent_stream"
    /\ pc = "exit"
    /\ assistant_content # <<>>
    /\ tool_calls # <<>>
    /\ tool_responses # <<>>

\* the index of the checkpoint written last before the loop goes on
LastCheckpointIndex == IF hist.first_turn = 0 THEN 0 ELSE iteration

\* every write of the last checkpoint that did not fail has been made
OtherWritesMade(dir, d) ==
    /\ <<d, "iteration">> \notin faults.now =>
          /\ IterationFileName(LastCheckpointIndex) \in DOMAIN dir.iter
          /\ dir.iter[IterationFileName(LastCheckpointIndex)] = conversation_log
    /\ <<d, "latest">> \notin faults.now => dir.latest = Some(conversation_log)
    /\ <<d, "info">> \notin faults.now =>
          dir.info = Some([current_iteration |-> LastCheckpointIndex])
    /\ <<d, "heartbeat">> \notin faults.now =>
          dir.heartbeat = Some([iteration |-> LastCheckpointIndex, status |-> "running"])

\* C18: after a checkpoint in which a write failed the loop goes on: no error is
\* raised, the other files are written, and the log and the context in memory
\* are those of the completed iteration.
C18_FailedWriteDoesNotStopLoop ==
    (pc = "loop" /\ faults.now # {}) =>
        /\ loop_result = None
        /\ OtherWritesMade(session_dir, "session")
        /\ OtherWritesMade(backup_dir, "backup")
        /\ <<"session", "global">> \notin faults.now =>
              global_heartbeat.main =
                 Some([iteration |-> LastCheckpointIndex, status |-> "running"])
        /\ <<"backup", "global">> \notin faults.now =>
              global_heartbeat.backup =
                 Some([iteration |-> LastCheckpointIndex, status |-> "running"])
        /\ hist.first_turn # 0 =>
              /\ IsAssistantContent(conversation_log[Len(conversation_log)])
              /\ context = (IF context_was_summarized THEN final_context
                            ELSE readable_context(conversation_log))

\* C18 witness: a write of the checkpoint of an iteration failed and the next
\* iteration has started.
C18_Witness ==
    /\ pc = "driver"
    /\ faults.now # {}
    /\ hist.first_turn # 0
    /\ iteration > hist.first_turn

\* C19: the step that runs the summariser leaves the log as it was, and within
\* a run every step keeps the records the log already has.
C19_LogOnlyGrows ==
    [][/\ (pc = "loop" /\ pc' # "loop" /\ count_tokens(context) > Threshold)
             => conversation_log' = conversation_log
       /\ pc # "done" =>
             /\ Len(conversation_log') >= Len(conversation_log)
             /\ SubSeq(conversation_log', 1, Len(conversation_log)) = conversation_log
      ]_vars

\* C19 witness: the summariser ran in an iteration that went on to append its
\* records to a log of several records.
C19_Witness ==
    /\ IterationCompleted
    /\ context_was_summarized
    /\ hist.turn_start > 1
    /\ Len(conversation_log) > hist.turn_start

\* the rendering rule of the claim: one block per record
RenderByRule(msg) ==
    CASE msg.role = "system" -> <<"SYSTEM: ">> \o msg.content \o <<"\n\n">>
      [] msg.role = "user" -> <<"USER: ">> \o msg.content \o <<"\n\n">>
      [] IsReasoning(msg) -> <<"ASSISTANT_REASONING: ">> \o msg.reasoning \o <<"\n\n">>
      [] IsToolCalls(msg) ->
            <<"ASSISTANT_TOOL_CALLS: ">>
              \o Flatten([i \in 1..Len(FilteredToolCalls(msg.tool_calls)) |->
                            ToolCallJson(FilteredToolCalls(msg.tool_calls)[i])])
              \o <<"\n\n">>
      [] IsAssistantContent(msg) -> <<"ASSISTANT: ">> \o msg.content \o <<"\n\n">>
      [] OTHER -> <<"TOOL_RESPONSE: ">> \o msg.content \o <<"\n\n">>

RenderedByRule(log) == Flatten([i \in 1..Len(log) |-> RenderByRule(log[i])])

\* C20: after an iteration without summarisation the context and the content of
\* context_log.txt are the rendering of the whole log, one block per record.
C20_ContextIsRenderedLog ==
    (IterationCompleted /\ ~context_was_summarized) =>
        /\ context = RenderedByRule(conversation_log)
        /\ context_log_txt = Some(RenderedByRule(conversation_log))

\* C21: the summariser is called in an iteration exactly when the context has
\* more than 199500 tokens at the top of the iteration: 199500 tokens do not
\* call it, 199501 do.
C21_SummarizerRunsOnlyAbove199500 ==
    hist.first_turn # 0 =>
        (hist.summarizer_ran <=> hist.context_tokens > 199500)

\* C21 witness: an iteration began with a context of exactly 199500 tokens and
\* the summariser was not called (the driver prompt built from that context is
\* then over the budget).
C21_Witness ==
    /\ hist.first_turn # 0
    /\ hist.context_tokens = 199500
    /\ ~hist.summarizer_ran
    /\ ~context_was_summarized
    /\ iteration > hist.first_turn

\* C22: after a completed iteration N whose checkpoint writes all succeeded,
\* latest.json of the session directory and of the backup directory hold the
\* same array, which is the array of iteration_N.json and the whole log.
C22_LatestEqualsIterationFile ==
    (IterationCompleted /\ faults.now = {}) =>
        /\ session_dir.latest = Some(conversation_log)
        /\ backup_dir.latest = session_dir.latest
        /\ IterationFileName(iteration) \in DOMAIN session_dir.iter
        /\ IterationFileName(iteration) \in DOMAIN backup_dir.iter
        /\ session_dir.iter[IterationFileName(iteration)] = conversation_log
        /\ backup_dir.iter[IterationFileName(iteration)] = conversation_log

\* C22 witness: the second iteration of a run completed without a failed write
\* and with tool records in its log.
C22_Witness ==
    /\ IterationCompleted
    /\ faults.now = {}
    /\ iteration > hist.first_turn
    /\ \E i \in 1..Len(conversation_log) : conversation_log[i].role = "tool"

\* C23: after an iteration that completed the log is longer than before the
\* turn: the turn appended a user record and, last, an assistant content record.
C23_CompletedTurnGrowsLog ==
    IterationCompleted =>
        /\ Len(conversation_log) > hist.turn_start
        /\ Len(conversation_log) >= hist.turn_start + 2
        /\ \E i \in 1..Len(TurnLog) : TurnLog[i].role = "user"
        /\ IsAssistantContent(TurnLog[Len(TurnLog)])
        /\ LastUserIndex < Len(TurnLog)

\* C23 witness: an iteration completed in which the Agent answered nothing: the
\* turn is the user record and an assistant record of empty content.
C23_Witness ==
    /\ IterationCompleted
    /\ Len(conversation_log) = hist.turn_start + 2
    /\ conversation_log[Len(conversation_log)].content = <<>>

\* a tool record that reports a note written
IsNoteWritten(msg) ==
    msg.role = "tool" /\ msg.content # <<>>
        /\ msg.content[1] = "Note written successfully to "

\* C24: every successful write_note call creates a file of its own: two such
\* calls never report the same file name and the notes directory holds at least
\* one note per reported write.
C24_EveryNoteHasItsOwnFile ==
    LET written == {i \in 1..Len(conversation_log) : IsNoteWritten(conversation_log[i])}
    IN /\ \A i, j \in written :
            i # j => conversation_log[i].content[2] # conversation_log[j].content[2]
       /\ Len(notes.session) >= Cardinality(written)

SystemRecords(log) == {i \in 1..Len(log) : log[i].role = "system"}

\* C26: the step that resumes a session makes the context the content of
\* context_log.txt and the log the array of latest.json, and adds no system
\* record.
C26_ResumeRestoresVerbatim ==
    [][(pc = "done" /\ pc' = "loop") =>
          /\ context_log_txt # Absent => context' = Get(context_log_txt)
          /\ session_dir.latest # Absent =>
                /\ conversation_log' = Get(session_dir.latest)
                /\ SystemRecords(conversation_log') = SystemRecords(Get(session_dir.latest))
          /\ session_dir.latest = Absent => SystemRecords(conversation_log') = {}
      ]_vars

\* C26 witness: a session was resumed from a directory that holds a context
\* and a log of several records, and no turn of the new run has started.
C26_Witness ==
    /\ runs > 1
    /\ pc = "loop"
    /\ hist.first_turn = 0
    /\ context # <<>>
    /\ context_log_txt = Some(context)
    /\ Len(conversation_log) > 2

\* C27: parse_approval_response returns a pair for every answer; the pair is
\* an approval only if the trimmed answer starts with "approve" in any case,
\* and an answer that starts with neither "approve" nor "deny" is not approved.
C27_ParseApprovalResponseTotalAndStrict ==
    (call.fn = "parse_approval_response" /\ call.result # Absent) =>
        LET verdict == Get(call.result) IN
        /\ DOMAIN verdict = {"approved", "reasoning"}
        /\ verdict.approved \in BOOLEAN
        /\ DOMAIN verdict.reasoning = 1..Len(verdict.reasoning)
        /\ verdict.approved => LeadingApprove(call.args.response)
        /\ (~LeadingApprove(call.args.response) /\ ~LeadingDeny(call.args.response))
              => ~verdict.approved

\* C27 witness: an answer with "approve" after other words was parsed and
\* was not approved.
C27_Witness ==
    /\ call.fn = "parse_approval_response"
    /\ call.result # Absent
    /\ call.args.response = <<"n", "o", "t", " ">> \o W_approve \o <<" ">> \o W_APPROVE
    /\ ~Get(call.result).approved

\* the placeholders of a call and the values they stand for
ValuesOf(c) ==
    CASE c.fn = "inject_template_variables" ->
            [ph \in {"{config_yaml}", "{context}"} |->
                IF ph = "{config_yaml}" THEN c.args.config_yaml ELSE c.args.context]
      [] c.fn = "inject_approval_variables_with_context" ->
            [ph \in {"{command}", "{cwd}", "{reason}", "{task_context}"} |->
                CASE ph = "{command}" -> c.args.command
                  [] ph = "{cwd}" -> c.args.cwd
                  [] ph = "{reason}" -> c.args.reason
                  [] OTHER -> c.args.config_content]
      [] OTHER ->
            [ph \in {"{command}", "{cwd}", "{reason}", "{task_context}", "{changes}"} |->
                CASE ph = "{command}" -> c.args.command
                  [] ph = "{cwd}" -> <<".">>
                  [] ph = "{reason}" -> c.args.reason
                  [] ph = "{task_context}" -> c.args.config_content
                  [] OTHER -> c.args.changes]

\* every placeholder of the template replaced by its value, the values left
\* as they are
SubstitutedOnce(template, values) ==
    Flatten([i \in 1..Len(template) |->
               IF template[i] \in DOMAIN values THEN values[template[i]]
               ELSE <<template[i]>>])

InjectFunctions ==
    {"inject_template_variables", "inject_approval_variables_with_context",
     "inject_patch_approval_variables_with_context"}

\* C28: the output of a template function is the template with each
\* placeholder replaced by its value; placeholder text inside a value stays.
C28_SubstitutionNotRecursive ==
    (call.fn \in InjectFunctions /\ call.result # Absent) =>
        Get(call.result) = SubstitutedOnce(call.args.template, ValuesOf(call))

GeneralGates == SelectSeq(hist.gates, LAMBDA g : g.gate \in {"approval", "patch_approval"})
ApprovalCalls ==
    SelectSeq(tool_calls,
              LAMBDA tc : tc.name \in {"request_approval", "request_patch_approval"})
ApprovalResponsesRecorded ==
    SelectSeq(tool_responses,
              LAMBDA tr : tr.content # <<>> /\ tr.content[1] = "decision: ")

\* C29: while the events of a turn are collected, each approval request
\* handled so far has one synthetic tool call, one synthetic tool response
\* with the decision, and one decision sent to the Agent with the id of the
\* event, by ExecApproval for an exec request and PatchApproval for a patch
\* request; the decision is Approved or Denied and is the recorded one.
C29_OneDecisionPerApprovalRequest ==
    pc \in {"collect", "collected"} =>
        /\ Len(agent_ops) = Len(GeneralGates)
        /\ Len(ApprovalCalls) = Len(GeneralGates)
        /\ Len(ApprovalResponsesRecorded) = Len(GeneralGates)
        /\ \A i \in 1..Len(GeneralGates) :
             /\ agent_ops[i].op = (IF GeneralGates[i].gate = "approval"
                                   THEN "ExecApproval" ELSE "PatchApproval")
             /\ agent_ops[i].id = "sub_" \o ToString(turns)
             /\ agent_ops[i].decision \in {"Approved", "Denied"}
             /\ ApprovalCalls[i].id = GeneralGates[i].call_id
             /\ ApprovalCalls[i].name = (IF GeneralGates[i].gate = "approval"
                                         THEN "request_approval"
                                         ELSE "request_patch_approval")
             /\ ApprovalResponsesRecorded[i].tool_call_id = GeneralGates[i].call_id
             /\ ApprovalResponsesRecorded[i].content[2] = agent_ops[i].decision

\* C29 witness: a patch approval request was denied and an exec approval
\* request approved in one turn.
C29_Witness ==
    /\ pc = "collect"
    /\ Len(GeneralGates) = 2
    /\ GeneralGates[1].gate = "patch_approval"
    /\ GeneralGates[2].gate = "approval"
    /\ agent_ops[1].decision = "Denied"
    /\ agent_ops[2].decision = "Approved"

\* C30: when the Driver called Supervisor tools, the log received a user record
\* with the Driver's original text and the tool calls with their id, name and
\* arguments, one tool record per call in order, and a user record with the
\* follow-up instruction, which is the instruction submitted; without tool
\* calls it received one user record with the instruction submitted.
C30_DriverToolCallsLogged ==
    pc = "submit" =>
        LET calls == hist.driver_calls
            n == Len(calls)
        IN IF n = 0
           THEN TurnLog = <<UserRecord(final_user_prompt)>>
           ELSE /\ Len(TurnLog) = n + 2
                /\ TurnLog[1] =
                     UserToolCallsRecord(hist.driver_text,
                        [i \in 1..n |-> FunctionCall(calls[i].id, calls[i].name,
                                                     calls[i].arguments)])
                /\ \A i \in 1..n :
                     /\ TurnLog[1 + i].role = "tool"
                     /\ TurnLog[1 + i].tool_call_id = calls[i].id
                /\ TurnLog[n + 2] = UserRecord(final_user_prompt)

\* C31: the decision of the general approval gate is Approved exactly when
\* the Driver answered and the answer contains "approve" in any case, and
\* Denied otherwise, a failed Driver call included.
C31_GeneralGateApprovesOnSubstring ==
    pc \in {"collect", "collected"} =>
        /\ Len(agent_ops) = Len(GeneralGates)
        /\ Len(ApprovalResponsesRecorded) = Len(GeneralGates)
        /\ \A i \in 1..Len(GeneralGates) :
             LET g == GeneralGates[i]
                 expected == IF g.answered /\ Contains(ToLower(g.response), W_approve)
                             THEN "Approved" ELSE "Denied"
             IN /\ agent_ops[i].decision = expected
                /\ ApprovalResponsesRecorded[i].content[2] = expected

\* C31 witness: an answer with "approve" after another word was taken as an
\* approval, and a failed Driver call as a denial.
C31_Witness ==
    /\ pc = "collect"
    /\ Len(GeneralGates) = 2
    /\ GeneralGates[1].answered
    /\ ~LeadingApprove(GeneralGates[1].response)
    /\ agent_ops[1].decision = "Approved"
    /\ ~GeneralGates[2].answered
    /\ agent_ops[2].decision = "Denied"

\* C32: an Error event of the Agent ends the turn and is not fatal: the
\* buffers collected so far are appended with a final assistant content
\* record, the checkpoint is written and the loop can start the next iteration.
C32_AgentErrorEndsTurnOnly ==
    hist.ended_by = "Error" =>
        /\ pc \in {"collected", "loop", "done"}
        /\ loop_result # "err"
        /\ hist.cause = "none"
        /\ pc = "loop" =>
             /\ Len(conversation_log) >= hist.turn_start + 1 + Len(TurnRecords)
             /\ SubSeq(conversation_log, Len(conversation_log) - Len(TurnRecords) + 1,
                       Len(conversation_log)) = TurnRecords
             /\ IsAssistantContent(conversation_log[Len(conversation_log)])
             /\ "iteration" \notin FailedIn(faults.now, "session") =>
                   /\ IterationFileName(iteration) \in DOMAIN session_dir.iter
                   /\ session_dir.iter[IterationFileName(iteration)] = conversation_log
             /\ (~session_finished /\ turns < MaxTurns) =>
                   ENABLED (IterationBegin \/ IterationBeginSummarize)

\* C32 witness: a turn that had collected a tool call and its response was
\* ended by Error, and the loop stands before the next iteration.
C32_Witness ==
    /\ hist.ended_by = "Error"
    /\ pc = "loop"
    /\ ~session_finished
    /\ turns < MaxTurns
    /\ tool_calls # <<>>
    /\ tool_responses # <<>>

\* C33: the demultiplexer has returned a turn record exactly when TaskComplete
\* or Error of the submission was handled; no event is handled after it; and
\* when the Agent emits such an event, the collection ends.
C33_DemuxReturnsOnTerminatingEvent ==
    /\ [](pc = "collected" => hist.ended_by \in {"TaskComplete", "Error"})
    /\ [](pc = "collect" => hist.ended_by = "none")
    /\ [][(pc' = "collected" /\ pc # "collected") => pc = "collect"]_vars
    /\ [][pc = "collected" =>
             /\ demux' = demux
             /\ hist'.gates = hist.gates
             /\ hist'.foreign = hist.foreign
             /\ pc' \in {"collected", "loop"}]_vars
    /\ (pc = "collect" ~> (pc = "collected" \/ hist.cause = "agent_stream"))

\* C33 witness: the collection of a turn with a mirrored tool call ended by
\* TaskComplete.
C33_Witness ==
    /\ pc = "collected"
    /\ hist.ended_by = "TaskComplete"
    /\ tool_calls # <<>>

\* C34: an event with the id of another submission changes neither the
\* buffers of the turn nor what was sent to the Agent, and does not end the
\* collection, whatever its kind.
C34_OtherSubmissionEventsIgnored ==
    [][(pc = "collect" /\ Len(hist'.foreign) > Len(hist.foreign)) =>
          /\ pc' = "collect"
          /\ demux' = demux
          /\ controller' = controller
          /\ notes' = notes
          /\ hist'.gates = hist.gates
          /\ hist'.ended_by = "none"
      ]_vars

\* C34 witness: a message and a TaskComplete of another submission arrived in a
\* turn that ended later with no text collected.
C34_Witness ==
    /\ pc = "collected"
    /\ hist.foreign = <<"AgentMessage", "TaskComplete">>
    /\ assistant_content = <<>>

\* C35: every assistant record of the log has exactly one of the fields
\* content, reasoning and tool_calls.
C35_AssistantRecordHasOneField ==
    \A i \in 1..Len(conversation_log) :
        conversation_log[i].role = "assistant" =>
            Cardinality(DOMAIN conversation_log[i]
                          \cap {"content", "reasoning", "tool_calls"}) = 1

\* C36: when the reasoning collected in a turn is empty or only whitespace,
\* the demultiplexer returns no reasoning and the iteration appends no
\* assistant reasoning record.
C36_NoReasoningRecordWithoutReasoning ==
    /\ (pc = "collected" /\ Trim(reasoning_content) = <<>>) => ReturnedReasoning = <<>>
    /\ (IterationCompleted /\ Trim(reasoning_content) = <<>>) =>
          \A i \in 1..Len(TurnLog) : ~IsReasoning(TurnLog[i])

\* C36 witness: an iteration completed whose reasoning events held only
\* whitespace.
C36_Witness ==
    /\ IterationCompleted
    /\ reasoning_content # <<>>
    /\ Trim(reasoning_content) = <<>>

\* C37: every Supervisor tool call executed in an iteration, whichever Driver
\* call made it, is in the log as a tool call of a user record followed by a
\* tool record.
C37_EveryToolExecutionLogged ==
    (IterationCompleted \/ pc = "submit") =>
        \A id \in hist.executed :
            \E i \in 1..Len(conversation_log) :
                /\ conversation_log[i].role = "user"
                /\ HasToolCall(conversation_log[i], id)
                /\ \E j \in (i + 1)..Len(conversation_log) :
                      /\ conversation_log[j].role = "tool"
                      /\ conversation_log[j].tool_call_id = id

\* C38: a bugcrowd_submit call whose approval Driver call failed has no
\* mirrored tool call and exactly one tool response, the approval error.
C38_ApprovalErrorIsADenial ==
    pc \in {"collect", "collected"} =>
        \A k \in 1..Len(hist.gates) :
            LET g == hist.gates[k] IN
            (g.gate = "bugcrowd" /\ ~g.answered) =>
                /\ \A i \in 1..Len(tool_calls) : tool_calls[i].id # g.call_id
                /\ Cardinality({i \in 1..Len(tool_responses) :
                                  tool_responses[i].tool_call_id = g.call_id}) = 1

\* C39: a numbered checkpoint file of the session directory, once written,
\* keeps its content.
C39_IterationFilesNeverRewritten ==
    [][\A f \in DOMAIN session_dir.iter :
          /\ f \in DOMAIN session_dir'.iter
          /\ session_dir'.iter[f] = session_dir.iter[f]
      ]_vars

\* C40: the highest iteration resume derives from the file names is the
\* highest iteration the session wrote.
C40_ResumeFindsHighestIteration ==
    (call.fn = "max_iteration" /\ call.result # Absent) =>
        Get(call.result) = call.args.highest

=============================================================================
